---- MODULE Spec2Model ----
(***************************************************************************)
(* Pizza Home backend (src/pizza_home_backend.py): the in-memory session   *)
(* store, the orders table and the Flask handlers that read and write      *)
(* them.  A Python str that the code inspects (message bodies, addresses,  *)
(* order ids, menu and zone names) is a sequence of one-character strings; *)
(* a value that may be None / NULL is <<>> (None) or <<v>> (Some v).       *)
(***************************************************************************)
EXTENDS Integers, Sequences, FiniteSets, TLC

VARIABLES sessions, orders, resp, delivery_charges, inflight

vars == <<sessions, orders, resp, delivery_charges, inflight>>

\* ------------------------------------------------------------------ bounds
\* number of distinct values uuid4().hex[:8] takes in the model
NumIds == 1
\* longest cart the model lets a customer build
MaxCart == 2

\* ------------------------------------------------------- None and dicts
None == <<>>
Some(v) == <<v>>
IsNone(o) == o = <<>>
Val(o) == o[1]

\* dict.get(key): None when the key is absent (values of optional keys are
\* stored as None / Some)
Get(d, k) == IF k \in DOMAIN d THEN d[k] ELSE None

\* Python truthiness of an optional str or list, and of an optional int
Truthy(o) == ~IsNone(o) /\ Val(o) # <<>>
TruthyInt(o) == ~IsNone(o) /\ Val(o) # 0

\* ----------------------------------------------------------------- str
UpperToLower ==
  [c \in {"A","B","C","D","E","F","G","H","I","J","K","L","M","N","O","P","Q",
          "R","S","T","U","V","W","X","Y","Z"} |->
     CASE c = "A" -> "a" [] c = "B" -> "b" [] c = "C" -> "c" [] c = "D" -> "d"
       [] c = "E" -> "e" [] c = "F" -> "f" [] c = "G" -> "g" [] c = "H" -> "h"
       [] c = "I" -> "i" [] c = "J" -> "j" [] c = "K" -> "k" [] c = "L" -> "l"
       [] c = "M" -> "m" [] c = "N" -> "n" [] c = "O" -> "o" [] c = "P" -> "p"
       [] c = "Q" -> "q" [] c = "R" -> "r" [] c = "S" -> "s" [] c = "T" -> "t"
       [] c = "U" -> "u" [] c = "V" -> "v" [] c = "W" -> "w" [] c = "X" -> "x"
       [] c = "Y" -> "y" [] c = "Z" -> "z"]

LowerChar(c) == IF c \in DOMAIN UpperToLower THEN UpperToLower[c] ELSE c

\* str.lower()
Lower(s) == [i \in 1..Len(s) |-> LowerChar(s[i])]

\* sub in s
Contains(sub, s) ==
  \E i \in 0..(Len(s) - Len(sub)) : SubSeq(s, i + 1, i + Len(sub)) = sub

\* s.startswith(p)
StartsWith(s, p) == Len(p) <= Len(s) /\ SubSeq(s, 1, Len(p)) = p

\* s.strip(): leading and trailing blanks removed
Strip(s) ==
  LET keep == {i \in 1..Len(s) : s[i] # " "}
  IN  IF keep = {} THEN <<>>
      ELSE LET lo == CHOOSE i \in keep : \A j \in keep : i <= j
               hi == CHOOSE i \in keep : \A j \in keep : j <= i
           IN  SubSeq(s, lo, hi)

\* ------------------------------------------------------------ order ids
HexDigit == [i \in 0..9 |-> CASE i = 0 -> "0" [] i = 1 -> "1" [] i = 2 -> "2"
                              [] i = 3 -> "3" [] i = 4 -> "4" [] i = 5 -> "5"
                              [] i = 6 -> "6" [] i = 7 -> "7" [] i = 8 -> "8"
                              [] i = 9 -> "9"]

\* the i-th value of uuid.uuid4().hex[:8].upper()
UuidHex(i) == <<"0","0","0","0","0","0","0", HexDigit[i]>>

\* f"PH-{uuid.uuid4().hex[:8].upper()}"
NewOrderId(i) == <<"P","H","-">> \o UuidHex(i)

Uuids == 1..NumIds

\* an id of the right shape that no order of the model carries
DEADBEEF == <<"P","H","-","D","E","A","D","B","E","E","F">>

OrderIds == {NewOrderId(i) : i \in Uuids}

\* datetime.utcnow().isoformat(): the clock is outside the program; the
\* handlers only store what they read, so one instant stands for all
Times == {"T1"}

\* --------------------------------------------------------------- orders
\* json.dumps(order['items']) and json.loads(items_json)
JsonDumps(items) == [json |-> items]
JsonLoads(text) == text.json

\* the row INSERTed for an order dict; verified_at is not in the column list
OrderRow(order) ==
  [order_id       |-> order.order_id,
   customer_phone |-> order.customer_phone,
   customer_name  |-> Get(order, "customer_name"),
   items_json     |-> JsonDumps(order.items),
   subtotal       |-> order.subtotal,
   delivery_charges |-> order.delivery_charges,
   total          |-> order.total,
   payment_method |-> order.payment_method,
   payment_status |-> IF "payment_status" \in DOMAIN order
                      THEN order.payment_status ELSE "pending",
   status         |-> IF "status" \in DOMAIN order
                      THEN order.status ELSE "initiated",
   address        |-> Get(order, "address"),
   lat            |-> Get(order, "lat"),
   lng            |-> Get(order, "lng"),
   created_at     |-> Get(order, "created_at"),
   verified_at    |-> None,
   screenshot_path |-> Get(order, "screenshot_path")]

\* the table with the row of order stored under its order_id
PutRow(tbl, order) ==
  [k \in DOMAIN tbl \cup {order.order_id} |->
     IF k = order.order_id THEN OrderRow(order) ELSE tbl[k]]

\* INSERT OR REPLACE: a second order with the id overwrites the first
persist_or_replace(tbl, order) == [raised |-> FALSE, tbl |-> PutRow(tbl, order)]

\* persist_order_to_db: order_id is the PRIMARY KEY, so the INSERT of a second
\* row with the id raises sqlite3.IntegrityError and the table stays as it was
persist_order_to_db(tbl, order) ==
  IF order.order_id \in DOMAIN tbl
  THEN [raised |-> TRUE, tbl |-> tbl]
  ELSE [raised |-> FALSE, tbl |-> PutRow(tbl, order)]

\* an UPDATE that marks the order failed when the payment failed
update_marking_failed(tbl, order_id, payment_status, screenshot_path, now) ==
  IF order_id \notin DOMAIN tbl THEN tbl
  ELSE IF Truthy(screenshot_path)
       THEN [tbl EXCEPT ![order_id] =
               [@ EXCEPT !.payment_status = payment_status,
                         !.status = IF payment_status = "pending"
                                    THEN "awaiting_verification"
                                    ELSE "confirmed",
                         !.screenshot_path = screenshot_path,
                         !.verified_at = Some(now)]]
       ELSE [tbl EXCEPT ![order_id] =
               [@ EXCEPT !.payment_status = payment_status,
                         !.status = IF payment_status = "paid" THEN "confirmed"
                                    ELSE IF payment_status = "failed" THEN "failed"
                                    ELSE "pending"]]

\* an UPDATE that writes status only where the arguments name a transition
\* and otherwise leaves the status the order had
update_keeping_status(tbl, order_id, payment_status, screenshot_path, now) ==
  IF order_id \notin DOMAIN tbl THEN tbl
  ELSE IF Truthy(screenshot_path)
       THEN [tbl EXCEPT ![order_id] =
               [@ EXCEPT !.payment_status = payment_status,
                         !.status = IF payment_status = "pending"
                                    THEN "awaiting_verification"
                                    ELSE "confirmed",
                         !.screenshot_path = screenshot_path,
                         !.verified_at = Some(now)]]
       ELSE [tbl EXCEPT ![order_id] =
               [@ EXCEPT !.payment_status = payment_status,
                         !.status = IF payment_status = "paid"
                                    THEN "confirmed" ELSE @]]

\* an update that deletes the row of a failed payment instead of marking it
update_deleting_failed(tbl, order_id, payment_status, screenshot_path, now) ==
  IF order_id \notin DOMAIN tbl THEN tbl
  ELSE IF payment_status = "failed"
       THEN [k \in DOMAIN tbl \ {order_id} |-> tbl[k]]
       ELSE [tbl EXCEPT ![order_id] =
               [@ EXCEPT !.payment_status = payment_status,
                         !.status = IF payment_status = "paid"
                                    THEN "confirmed" ELSE "awaiting_verification",
                         !.screenshot_path = screenshot_path]]

\* update_order_payment_status: the table after the UPDATE ... WHERE order_id=?
update_order_payment_status(tbl, order_id, payment_status, screenshot_path, now) ==
  IF order_id \notin DOMAIN tbl THEN tbl
  ELSE IF Truthy(screenshot_path)
       THEN [tbl EXCEPT ![order_id] =
               [@ EXCEPT !.payment_status = payment_status,
                         !.status = IF payment_status = "pending"
                                    THEN "awaiting_verification"
                                    ELSE "confirmed",
                         !.screenshot_path = screenshot_path,
                         !.verified_at = Some(now)]]
       ELSE [tbl EXCEPT ![order_id] =
               [@ EXCEPT !.payment_status = payment_status,
                         !.status = IF payment_status = "paid"
                                    THEN "confirmed" ELSE "pending"]]

\* UPDATE orders SET status=? WHERE order_id=?
SetStatus(tbl, order_id, status) ==
  IF order_id \notin DOMAIN tbl THEN tbl
  ELSE [tbl EXCEPT ![order_id] = [@ EXCEPT !.status = status]]

\* ------------------------------------------------------- notifications
ADMIN_PHONE == "+923001234567"
RIDER_NUMBER == "+923001234567"

\* send_whatsapp(to, text): the message, by the format string that built it
\* and the values formatted into it
Msg(to, kind, args) == [to |-> to, kind |-> kind, args |-> args]

\* a message whose text has no formatted value
NoArgs == [fixed |-> TRUE]

\* i.get(key, default) on an item dict
ItemGet(i, k, default) == IF k \in DOMAIN i THEN i[k] ELSE default

\* notify_rider(order): the text sent to the rider
notify_rider(order) ==
  LET items == order.items
      lines == [n \in 1..Len(items) |->
                  <<ItemGet(items[n], "qty", 1), ItemGet(items[n], "size", <<>>),
                    ItemGet(items[n], "name", None), ItemGet(items[n], "price", None)>>]
  IN  Msg(RIDER_NUMBER, "NewOrder",
          [order_id |-> order.order_id, customer_phone |-> order.customer_phone,
           address |-> Get(order, "address"), items |-> lines,
           total |-> order.total])

\* what a handler returned: the endpoint, the HTTP status (500: an unhandled
\* exception), the messages it sent and the notify_rider threads it started
Response(op, code, sent, threads) ==
  [op |-> op, code |-> code, sent |-> sent, threads |-> threads]

\* a total that leaves the delivery charge out
OrderTotalNoFee(subtotal, dc) == subtotal

\* total = subtotal + dc (lines 313, 328 and 386)
OrderTotal(subtotal, dc) == subtotal + dc

\* ------------------------------------------------------ POST /order/create
RECURSIVE SumLines(_)
\* sum(it.get('price',0) * it.get('qty',1) for it in items)
SumLines(items) ==
  IF items = <<>> THEN 0
  ELSE ItemGet(Head(items), "price", 0) * ItemGet(Head(items), "qty", 1)
       + SumLines(Tail(items))

http_create_order(tbl, data, uuid, now) ==
  IF \E r \in {"customer_phone", "items", "payment_method"} : r \notin DOMAIN data
  THEN [orders |-> tbl, resp |-> Response("order_create", 400, <<>>, <<>>)]
  ELSE
    LET order_id == NewOrderId(uuid)
        subtotal == SumLines(data.items)
        dc == IF "delivery_charges" \in DOMAIN data THEN data.delivery_charges ELSE 0
        total == OrderTotal(subtotal, dc)
        order == [order_id |-> order_id,
                  customer_phone |-> data.customer_phone,
                  customer_name |-> Get(data, "customer_name"),
                  items |-> data.items,
                  subtotal |-> subtotal,
                  delivery_charges |-> dc,
                  total |-> total,
                  payment_method |-> data.payment_method,
                  payment_status |-> IF data.payment_method # "online_manual"
                                     THEN "pending" ELSE "pending",
                  status |-> IF data.payment_method = "cod"
                             THEN "confirmed" ELSE "awaiting_payment",
                  address |-> Get(data, "address"),
                  lat |-> Get(data, "lat"),
                  lng |-> Get(data, "lng"),
                  created_at |-> Some(now)]
        saved == persist_order_to_db(tbl, order)
    IN  IF saved.raised
        THEN [orders |-> saved.tbl, resp |-> Response("order_create", 500, <<>>, <<>>)]
        ELSE [orders |-> saved.tbl,
              resp |-> Response("order_create", 201,
                         <<Msg(order.customer_phone, "OrderReceived",
                               [order_id |-> order_id, total |-> total])>>,
                         <<notify_rider(order)>>)]

\* -------------------------------------------------- POST /upload/screenshot
UPLOAD_DIR == <<"d","a","t","a","/","u","p","l","o","a","d","s">>

\* os.path.join(UPLOAD_DIR, f"{order_id}_{filename}")
SavePath(order_id, filename) == UPLOAD_DIR \o <<"/">> \o order_id \o <<"_">> \o filename

upload_screenshot(tbl, order_id, phone, files, now) ==
  IF "file" \notin DOMAIN files
  THEN [orders |-> tbl, resp |-> Response("upload_screenshot", 400, <<>>, <<>>)]
  ELSE
    LET save_path == SavePath(order_id, files.file)
    IN  [orders |-> update_order_payment_status(tbl, order_id, "pending",
                                                Some(save_path), now),
         resp |-> Response("upload_screenshot", 200,
                    <<Msg(ADMIN_PHONE, "ScreenshotUploaded",
                          [order_id |-> order_id, phone |-> phone,
                           save_path |-> save_path]),
                      Msg(phone, "ScreenshotReceived", NoArgs)>>,
                    <<>>)]

\* an order dict that leaves the stored address out
FetchOrderNoAddress(tbl, order_id, customer_phone) ==
  [order_id |-> order_id,
   customer_phone |-> customer_phone,
   items |-> JsonLoads(tbl[order_id].items_json),
   address |-> None,
   total |-> tbl[order_id].total]

\* fetch order to notify rider: SELECT items_json, address, total and the
\* order dict built from the row (lines 457-464 and 492-499)
FetchOrder(tbl, order_id, customer_phone) ==
  [order_id |-> order_id,
   customer_phone |-> customer_phone,
   items |-> JsonLoads(tbl[order_id].items_json),
   address |-> tbl[order_id].address,
   total |-> tbl[order_id].total]

\* ------------------------------------------------------ POST /order/verify
\* utcnow() is not evaluated when no screenshot path is passed
ClockUnread == "T1"

verify_order(tbl, order_id, verified) ==
  IF order_id \notin DOMAIN tbl
  THEN [orders |-> tbl, resp |-> Response("order_verify", 404, <<>>, <<>>)]
  ELSE
    LET customer_phone == tbl[order_id].customer_phone
    IN  IF verified
        THEN LET paid == update_order_payment_status(tbl, order_id, "paid",
                                                     None, ClockUnread)
                 done == SetStatus(paid, order_id, "confirmed")
                 order == FetchOrder(done, order_id, customer_phone)
             IN  [orders |-> done,
                  resp |-> Response("order_verify", 200,
                             <<Msg(customer_phone, "PaymentVerified",
                                   [order_id |-> order_id])>>,
                             <<notify_rider(order)>>)]
        ELSE [orders |-> update_order_payment_status(tbl, order_id, "failed",
                                                     None, ClockUnread),
              resp |-> Response("order_verify", 200,
                         <<Msg(customer_phone, "PaymentNotVerified",
                               [order_id |-> order_id])>>,
                         <<>>)]

\* ---------------------------------------------------- POST /webhook/payment
payment_webhook(tbl, order_id, status) ==
  IF status # "paid"
  THEN [orders |-> tbl, resp |-> Response("payment_webhook", 200, <<>>, <<>>)]
  ELSE
    LET paid == update_order_payment_status(tbl, order_id, "paid", None, ClockUnread)
    IN  IF order_id \notin DOMAIN paid
        THEN [orders |-> paid, resp |-> Response("payment_webhook", 200, <<>>, <<>>)]
        ELSE LET row == paid[order_id]
                 order == FetchOrder(paid, order_id, row.customer_phone)
             IN  [orders |-> paid,
                  resp |-> Response("payment_webhook", 200,
                             <<Msg(row.customer_phone, "PaymentReceived",
                                   [order_id |-> order_id])>>,
                             <<notify_rider(order)>>)]

\* ------------------------------------------------------- menu and zones
\* the menu of load_json_file(MENU_FILE, default); a prices dict is the
\* sequence of its (size, price) entries in insertion order
DefaultMenu ==
  [items |-> <<
     [name |-> <<"C","h","i","c","k","e","n"," ","T","i","k","k","a"," ","P","i","z","z","a">>,
      prices |-> <<<<<<"S","m","a","l","l">>, 350>>, <<<<"M","e","d","i","u","m">>, 650>>, <<<<"L","a","r","g","e">>, 950>>>>],
     [name |-> <<"P","e","p","p","e","r","o","n","i"," ","P","i","z","z","a">>,
      prices |-> <<<<<<"S","m","a","l","l">>, 400>>, <<<<"M","e","d","i","u","m">>, 700>>, <<<<"L","a","r","g","e">>, 1000>>>>],
     [name |-> <<"M","a","r","g","h","e","r","i","t","a"," ","P","i","z","z","a">>,
      prices |-> <<<<<<"S","m","a","l","l">>, 300>>, <<<<"M","e","d","i","u","m">>, 550>>, <<<<"L","a","r","g","e">>, 800>>>>],
     [name |-> <<"F","r","i","e","s">>,
      prices |-> <<<<<<"O","n","e","S","i","z","e">>, 120>>>>],
     [name |-> <<"P","e","p","s","i"," ","1",".","5","L">>,
      prices |-> <<<<<<"O","n","e","S","i","z","e">>, 250>>>>]>>]

\* the zones dict of load_json_file(DELIVERY_FILE, default), in insertion order
DefaultDelivery ==
  [zones |-> <<
     <<<<"C","i","t","y"," ","C","e","n","t","e","r">>, 80>>,
     <<<<"F","a","u","j","i"," ","C","o","l","o","n","y">>, 100>>,
     <<<<"N","e","a","r"," ","D","H","Q">>, 120>>,
     <<<<"O","u","t","s","k","i","r","t","s">>, 150>>>>]

\* key in prices, prices[key], list(prices.keys())[0]
HasSize(prices, key) == \E n \in 1..Len(prices) : prices[n][1] = key
PriceOf(prices, key) ==
  prices[CHOOSE n \in 1..Len(prices) : prices[n][1] = key][2]

\* ---------------------------------------------------------------- difflib
Max(S) == CHOOSE x \in S : \A y \in S : y <= x
Min(S) == CHOOSE x \in S : \A y \in S : x <= y

\* length of the longest common run of a from i and b from j
RunLen(a, b, i, j) ==
  Max({k \in 0..Min({Len(a) - i + 1, Len(b) - j + 1}) :
         SubSeq(a, i, i + k - 1) = SubSeq(b, j, j + k - 1)})

\* SequenceMatcher.find_longest_match: the longest block, the earliest in a
\* among the longest, the earliest in b among those
find_longest_match(a, b) ==
  IF a = <<>> \/ b = <<>> THEN <<1, 1, 0>>
  ELSE
    LET run == [i \in 1..Len(a) |-> [j \in 1..Len(b) |-> RunLen(a, b, i, j)]]
        k == Max({run[i][j] : i \in 1..Len(a), j \in 1..Len(b)})
        i == Min({x \in 1..Len(a) : \E y \in 1..Len(b) : run[x][y] = k})
        j == Min({y \in 1..Len(b) : run[i][y] = k})
    IN  <<i, j, k>>

RECURSIVE MatchingSize(_, _)
\* sum of the sizes of SequenceMatcher(None, a, b).get_matching_blocks()
MatchingSize(a, b) ==
  LET m == find_longest_match(a, b)
  IN  IF m[3] = 0 THEN 0
      ELSE m[3]
           + MatchingSize(SubSeq(a, 1, m[1] - 1), SubSeq(b, 1, m[2] - 1))
           + MatchingSize(SubSeq(a, m[1] + m[3], Len(a)),
                          SubSeq(b, m[2] + m[3], Len(b)))

\* SequenceMatcher.ratio() as the fraction <<2 * matches, len(a) + len(b)>>
Ratio(a, b) ==
  IF Len(a) + Len(b) = 0 THEN <<1, 1>>
  ELSE <<2 * MatchingSize(a, b), Len(a) + Len(b)>>

\* code point order of the characters the model uses
Alphabet ==
  <<" ", "-", ".", "/",
    "0","1","2","3","4","5","6","7","8","9",
    "A","B","C","D","E","F","G","H","I","J","K","L","M","N","O","P","Q",
    "R","S","T","U","V","W","X","Y","Z", "_",
    "a","b","c","d","e","f","g","h","i","j","k","l","m","n","o","p","q",
    "r","s","t","u","v","w","x","y","z">>

Ord(c) == CHOOSE n \in 1..Len(Alphabet) : Alphabet[n] = c

RECURSIVE StrLess(_, _)
\* x < y on str
StrLess(x, y) ==
  IF y = <<>> THEN FALSE
  ELSE IF x = <<>> THEN TRUE
  ELSE IF Head(x) = Head(y) THEN StrLess(Tail(x), Tail(y))
  ELSE Ord(Head(x)) < Ord(Head(y))

\* (score1, x1) < (score2, x2) on the (ratio, name) tuples that
\* get_close_matches ranks
ScoredLess(r1, x1, r2, x2) ==
  \/ r1[1] * r2[2] < r2[1] * r1[2]
  \/ r1[1] * r2[2] = r2[1] * r1[2] /\ StrLess(x1, x2)

\* difflib.get_close_matches(word, names, n=1, cutoff=0.5): the index of the
\* name returned (the first of the largest (ratio, name) tuples), 0 when none
\* has ratio >= 0.5
get_close_matches(word, names) ==
  LET ratio == [n \in 1..Len(names) |-> Ratio(names[n], word)]
      ok == {n \in 1..Len(names) : 2 * ratio[n][1] >= ratio[n][2]}
      best == {n \in ok : \A o \in ok :
                 ~ScoredLess(ratio[n], names[n], ratio[o], names[o])}
  IN  IF ok = {} THEN 0 ELSE Min(best)

\* ------------------------------------------------------- match_menu_item
LowerToUpper ==
  [c \in {UpperToLower[u] : u \in DOMAIN UpperToLower} |->
     CHOOSE u \in DOMAIN UpperToLower : UpperToLower[u] = c]

UpperChar(c) == IF c \in DOMAIN LowerToUpper THEN LowerToUpper[c] ELSE c

\* str.upper() and str.capitalize()
Upper(s) == [i \in 1..Len(s) |-> UpperChar(s[i])]
Capitalize(s) ==
  [i \in 1..Len(s) |-> IF i = 1 THEN UpperChar(s[i]) ELSE LowerChar(s[i])]

\* the size words match_menu_item scans for, in the order it scans them
SizeWords ==
  <<<<"L","a","r","g","e">>,
    <<"l","a","r","g","e">>,
    <<"L">>,
    <<"l">>,
    <<"M","e","d","i","u","m">>,
    <<"m","e","d","i","u","m">>,
    <<"M">>,
    <<"m">>,
    <<"S","m","a","l","l">>,
    <<"s","m","a","l","l">>,
    <<"S">>,
    <<"s">>>>

MEDIUM == <<"M","e","d","i","u","m">>
ONESIZE == <<"O","n","e","S","i","z","e">>

NoMatch == [item |-> None, price |-> None, size |-> None]
Match(it, price, size) == [item |-> Some(it), price |-> Some(price), size |-> Some(size)]

\* the size the scan of lines 128-132 settles on (None when no word occurs)
DetectSize(text) ==
  LET hits == {n \in 1..Len(SizeWords) : Contains(SizeWords[n], text)}
  IN  IF hits = {} THEN None
      ELSE LET s == SizeWords[Min(hits)]
           IN  Some(IF Len(s) > 1 THEN Capitalize(s) ELSE Upper(s))

\* a default that takes the first entry of the price table
DefaultPriceFirst(it) == Match(it, it.prices[1][2], it.prices[1][1])

\* Medium, else OneSize, else the first entry (lines 156-163 and 167-173)
DefaultPrice(it) ==
  LET prices == it.prices
  IN  IF HasSize(prices, MEDIUM) THEN Match(it, PriceOf(prices, MEDIUM), MEDIUM)
      ELSE IF HasSize(prices, ONESIZE) THEN Match(it, PriceOf(prices, ONESIZE), ONESIZE)
      ELSE Match(it, prices[1][2], prices[1][1])

\* the requested size, else OneSize, else Medium, else the first entry
\* (lines 144-155)
SizedPrice(it, size) ==
  LET prices == it.prices
  IN  IF HasSize(prices, size) THEN Match(it, PriceOf(prices, size), size)
      ELSE IF HasSize(prices, ONESIZE) THEN Match(it, PriceOf(prices, ONESIZE), ONESIZE)
      ELSE IF HasSize(prices, MEDIUM) THEN Match(it, PriceOf(prices, MEDIUM), MEDIUM)
      ELSE Match(it, prices[1][2], prices[1][1])

match_menu_item(menu, raw) ==
  LET text == Strip(raw)
      size == DetectSize(text)
      items == menu.items
      names == [n \in 1..Len(items) |-> items[n].name]
      match == get_close_matches(text, names)
      sub == {n \in 1..Len(items) : Contains(Lower(items[n].name), Lower(text))}
  IN  IF match # 0
      THEN LET it == items[Min({n \in 1..Len(items) : items[n].name = names[match]})]
           IN  IF ~IsNone(size) THEN SizedPrice(it, Val(size)) ELSE DefaultPrice(it)
      ELSE IF sub # {} THEN DefaultPrice(items[Min(sub)])
      ELSE NoMatch

\* ----------------------------------------------- calculate_delivery_charge
\* a resolution that keeps the last zone of the table named in the address
calculate_last_zone(address_text) ==
  LET addr == Lower(address_text)
      zones == delivery_charges.zones
      hits == {n \in 1..Len(zones) : Contains(Lower(zones[n][1]), addr)}
  IN  IF hits # {} THEN <<zones[Max(hits)][2], zones[Max(hits)][1]>>
      ELSE <<zones[1][2], zones[1][1]>>

\* (charge, zone): the first zone, in the dict's order, whose lower-cased name
\* is in the lower-cased address; the first zone of the dict when none is
calculate_delivery_charge(address_text) ==
  LET addr == Lower(address_text)
      zones == delivery_charges.zones
      hits == {n \in 1..Len(zones) : Contains(Lower(zones[n][1]), addr)}
  IN  IF hits # {} THEN <<zones[Min(hits)][2], zones[Min(hits)][1]>>
      ELSE <<zones[1][2], zones[1][1]>>

\* ------------------------------------------------- message bodies handled
T_ADD == <<"l","a","r","g","e"," ","m","a","r","g","h","e","r","i","t","a">>
T_PIZZA == <<"L","a","r","g","e"," ","M","a","r","g","h","e","r","i","t","a"," ","P","i","z","z","a">>
T_MENU == <<"m","e","n","u">>
T_CHECKOUT == <<"c","h","e","c","k","o","u","t">>
T_COD == <<"c","o","d">>
T_PICKUP == <<"p","i","c","k","u","p">>
T_ONLINE == <<"o","n","l","i","n","e">>
T_TRACK == <<"t","r","a","c","k">>
T_STREET == <<"1","2","3"," ","C","i","t","y"," ","C","e","n","t","e","r"," ","R","d">>
T_ADDRESS == <<"m","y"," ","a","d","d","r","e","s","s"," ","i","s"," ","O","u","t","s","k","i","r","t","s">>
T_HELLO == <<"h","e","l","l","o">>
T_TWO_ZONES == <<"a","d","d","r","e","s","s",":"," ","O","u","t","s","k","i","r","t","s",","," ","n","e","a","r"," ","C","i","t","y"," ","C","e","n","t","e","r">>
T_NO_ZONE == <<"a","d","d","r","e","s","s",":"," ","5"," ","M","a","l","l"," ","R","o","a","d">>

\* every body a modelled message carries; '' stands for a message without text
MessageTexts ==
  {<<>>, T_ADD, T_PIZZA, T_MENU, T_CHECKOUT, T_COD, T_PICKUP, T_ONLINE, T_TRACK,
   T_STREET, T_ADDRESS, T_HELLO, T_TWO_ZONES, T_NO_ZONE, Upper(T_MENU),
   DEADBEEF} \cup OrderIds

\* texts handed to match_menu_item itself: "<size> <name>" for every item of
\* the menu and every size it is sold in, and texts that name no size: the
\* names as written and in capitals, a misspelt name and a name in a sentence
SizedTexts ==
  UNION {{it.prices[k][1] \o <<" ">> \o it.name : k \in 1..Len(it.prices)} :
           it \in {DefaultMenu.items[n] : n \in 1..Len(DefaultMenu.items)}}

NoSizeTexts ==
  UNION {{DefaultMenu.items[n].name, Upper(DefaultMenu.items[n].name)} :
           n \in 1..Len(DefaultMenu.items)}
  \cup {<<"g","e","t"," ","m","e"," ","f","r","i","e","s">>,
        <<"p","e","p","e","r","o","n","i"," ","p","i","z","a">>}

\* ------------------------------------------------------ intent conditions
\* any(k in lower for k in [...]) of line 239
IsOrderIntent(lower) ==
  \E k \in {<<"o","r","d","e","r">>,
     <<"m","e","n","u">>,
     <<"p","i","z","z","a">>,
     <<"p","l","a","c","e"," ","o","r","d","e","r">>,
     <<"o","r","d","e","r"," ","k","a","r","n","a">>,
     <<"o","r","d","e","r"," ","k","r","n","a">>} :
    Contains(k, lower)

\* line 242
IsMenu(lower) == lower = <<"m","e","n","u">> \/ Contains(<<"s","h","o","w"," ","m","e","n","u">>, lower)

\* line 250
IsSelection(lower) ==
  \E k \in {<<"l","a","r","g","e">>,
     <<"m","e","d","i","u","m">>,
     <<"s","m","a","l","l">>,
     <<"f","r","i","e","s">>,
     <<"p","e","p","s","i">>} :
    Contains(k, lower)

\* lines 261, 269, 276
IsCheckout(lower) == lower = <<"c","h","e","c","k","o","u","t">>
IsCod(lower) == lower = <<"c","o","d">> \/ Contains(<<"c","a","s","h">>, lower)
IsPickup(lower) == lower = <<"p","i","c","k","u","p">>

\* the two keyword tests of line 303
IsAddressWord(lower) ==
  Contains(<<"c","o","n","f","i","r","m"," ","a","d","d","r","e","s","s">>, lower) \/ Contains(<<"a","d","d","r","e","s","s">>, lower)

\* lines 317, 351, 353
IsOnline(lower) == lower = <<"o","n","l","i","n","e">>
IsUpload(lower) ==
  \/ lower = <<"u","p","l","o","a","d"," ","s","c","r","e","e","n","s","h","o","t">>
  \/ StartsWith(lower, <<"u","p","l","o","a","d">>)
  \/ Contains(<<"s","c","r","e","e","n","s","h","o","t">>, lower)
IsTrack(lower) == lower = <<"t","r","a","c","k">> \/ Contains(<<"t","r","a","c","k"," ","o","r","d","e","r">>, lower)

\* line 355: text and text.startswith('PH-')
IsOrderId(text) == text # <<>> /\ StartsWith(text, <<"P","H","-">>)

\* the conditions of the elif chain that depend on the body alone, and the
\* result of match_menu_item, evaluated once per body
Routing ==
  [t \in MessageTexts |->
     [order_intent |-> IsOrderIntent(Lower(t)),
      menu |-> IsMenu(Lower(t)),
      selection |-> IsSelection(Lower(t)),
      checkout |-> IsCheckout(Lower(t)),
      cod |-> IsCod(Lower(t)),
      pickup |-> IsPickup(Lower(t)),
      address_word |-> IsAddressWord(Lower(t)),
      online |-> IsOnline(Lower(t)),
      upload |-> IsUpload(Lower(t)),
      track |-> IsTrack(Lower(t)),
      order_id |-> IsOrderId(t)]]

\* "large" before each item name in capitals: no name is close to such a text,
\* and the substring search finds the item
SubstringTexts ==
  {<<"l","a","r","g","e"," ">> \o Upper(DefaultMenu.items[n].name) :
     n \in 1..Len(DefaultMenu.items)}

\* match_menu_item(text) of line 252, for each text the selection branch
\* takes, and for the texts the matcher is handed directly
Matched ==
  [t \in {x \in MessageTexts : IsSelection(Lower(x))}
          \cup SizedTexts \cup NoSizeTexts \cup SubstringTexts |->
     match_menu_item(DefaultMenu, t)]

\* ---------------------------------------------------------------- sessions
\* a session dict: every key the handlers set, None while the key is absent
EmptySession ==
  [cart |-> None, subtotal |-> None, awaiting_address |-> None,
   address |-> None, delivery_charges |-> None, total |-> None,
   pending_order_id |-> None, last_location |-> None]

\* sessions.get(sender)
SessionOf(store, sender) ==
  IF sender \in DOMAIN store THEN Some(store[sender]) ELSE None

\* sessions[sender] = sess
PutSession(store, sender, sess) ==
  [k \in DOMAIN store \cup {sender} |-> IF k = sender THEN sess ELSE store[k]]

\* sessions.pop(sender, None)
PopSession(store, sender) == [k \in DOMAIN store \ {sender} |-> store[k]]

\* not sess or not sess.get('cart')
NoCart(store, sender) ==
  \/ sender \notin DOMAIN store
  \/ store[sender] = EmptySession
  \/ ~Truthy(store[sender].cart)

RECURSIVE SumPrices(_)
\* sum(i['price'] for i in cart)
SumPrices(cart) ==
  IF cart = <<>> THEN 0 ELSE Head(cart).price + SumPrices(Tail(cart))

\* what whatsapp_webhook leaves behind
Outcome(store, tbl, code, sent, threads) ==
  [sessions |-> store, orders |-> tbl,
   resp |-> Response("whatsapp", code, sent, threads)]

Reply(store, tbl, sender, kind, args) ==
  Outcome(store, tbl, 200, <<Msg(sender, kind, args)>>, <<>>)

\* an exception escapes the handler: nothing is sent after it
Raised(store, tbl, sent) == Outcome(store, tbl, 500, sent, <<>>)

\* ------------------------------------------- POST /webhook/whatsapp branches
\* lines 250-260; m is the result of match_menu_item(text)
SelectItem(store, tbl, sender, m) ==
  IF IsNone(m.item)
  THEN Reply(store, tbl, sender, "ItemNotFound", NoArgs)
  ELSE
    LET sess == IF sender \in DOMAIN store THEN store[sender]
                ELSE [EmptySession EXCEPT !.cart = Some(<<>>)]
    IN  IF IsNone(sess.cart)
        THEN Raised(store, tbl, <<>>)
        ELSE
          LET cart == Append(Val(sess.cart),
                             [name |-> Val(m.item).name, size |-> Val(m.size),
                              price |-> Val(m.price), qty |-> 1])
          IN  Reply(PutSession(store, sender, [sess EXCEPT !.cart = Some(cart)]),
                    tbl, sender, "AddedToCart",
                    [size |-> Val(m.size), name |-> Val(m.item).name,
                     price |-> Val(m.price), subtotal |-> SumLines(cart)])

\* a checkout that opens a session (sessions.setdefault) before it looks at
\* the cart
CheckoutOpeningSession(store, tbl, sender) ==
  IF NoCart(store, sender)
  THEN Reply(PutSession(store, sender,
                        IF sender \in DOMAIN store THEN store[sender]
                        ELSE EmptySession),
             tbl, sender, "CartEmptySendItem", NoArgs)
  ELSE
    LET sess == store[sender]
        subtotal == SumLines(Val(sess.cart))
    IN  Reply(PutSession(store, sender, [sess EXCEPT !.subtotal = Some(subtotal)]),
              tbl, sender, "Subtotal", [subtotal |-> subtotal])

\* lines 261-268
Checkout(store, tbl, sender) ==
  IF NoCart(store, sender)
  THEN Reply(store, tbl, sender, "CartEmptySendItem", NoArgs)
  ELSE
    LET sess == store[sender]
        subtotal == SumLines(Val(sess.cart))
    IN  Reply(PutSession(store, sender, [sess EXCEPT !.subtotal = Some(subtotal)]),
              tbl, sender, "Subtotal", [subtotal |-> subtotal])

\* lines 269-275
Cod(store, tbl, sender) ==
  IF NoCart(store, sender)
  THEN Reply(store, tbl, sender, "CartEmptyBeforePayment", NoArgs)
  ELSE Reply(PutSession(store, sender,
                        [store[sender] EXCEPT !.awaiting_address = Some(TRUE)]),
             tbl, sender, "ShareAddress", NoArgs)

PICKUP == <<"P","I","C","K","U","P">>

\* lines 276-302
Pickup(store, tbl, sender, uuid, now) ==
  IF NoCart(store, sender)
  THEN Reply(store, tbl, sender, "CartEmptyBeforePickup", NoArgs)
  ELSE
    LET sess == store[sender]
    IN  IF IsNone(sess.subtotal)
        THEN Raised(store, tbl, <<>>)
        ELSE
          LET subtotal == Val(sess.subtotal)
              order_id == NewOrderId(uuid)
              order == [order_id |-> order_id,
                        customer_phone |-> sender,
                        customer_name |-> None,
                        items |-> Val(sess.cart),
                        subtotal |-> subtotal,
                        delivery_charges |-> 0,
                        total |-> subtotal,
                        payment_method |-> "cod",
                        payment_status |-> "pending",
                        status |-> "confirmed",
                        address |-> Some(PICKUP),
                        created_at |-> Some(now)]
              saved == persist_order_to_db(tbl, order)
          IN  IF saved.raised
              THEN Raised(store, saved.tbl, <<>>)
              ELSE Outcome(PopSession(store, sender), saved.tbl, 200,
                           <<Msg(sender, "PickupConfirmed", [order_id |-> order_id])>>,
                           <<notify_rider(order)>>)

\* lines 303-316; text is None for a message without a body
Address(store, tbl, sender, text) ==
  LET sess == IF sender \in DOMAIN store THEN store[sender] ELSE EmptySession
      noted == [sess EXCEPT !.address = text, !.awaiting_address = Some(FALSE)]
  IN  IF IsNone(text)
      THEN Raised(PutSession(store, sender, noted), tbl, <<>>)
      ELSE
        LET found == calculate_delivery_charge(Val(text))
            dc == found[1]
            zone == found[2]
            subtotal == IF ~IsNone(sess.subtotal) THEN Val(sess.subtotal)
                        ELSE SumPrices(IF IsNone(sess.cart) THEN <<>> ELSE Val(sess.cart))
            total == OrderTotal(subtotal, dc)
        IN  Reply(PutSession(store, sender,
                             [noted EXCEPT !.delivery_charges = Some(dc),
                                           !.total = Some(total)]),
                  tbl, sender, "OrderPreview",
                  [dc |-> dc, zone |-> zone, subtotal |-> subtotal, total |-> total])

\* lines 317-350
Online(store, tbl, sender, uuid, now) ==
  IF NoCart(store, sender)
  THEN Reply(store, tbl, sender, "CartEmptyBeforePayment", NoArgs)
  ELSE
    LET sess == store[sender]
        subtotal == IF ~IsNone(sess.subtotal) THEN Val(sess.subtotal)
                    ELSE SumPrices(Val(sess.cart))
    IN  IF ~TruthyInt(sess.delivery_charges)
        THEN Reply(store, tbl, sender, "AddressFirst", NoArgs)
        ELSE
          LET total == OrderTotal(subtotal, Val(sess.delivery_charges))
              order_id == NewOrderId(uuid)
              kept == [sess EXCEPT !.total = Some(total),
                                   !.pending_order_id = Some(order_id)]
              bank_msg == Msg(sender, "BankDetails",
                              [total |-> total, order_id |-> order_id])
              order == [order_id |-> order_id,
                        customer_phone |-> sender,
                        customer_name |-> None,
                        items |-> Val(sess.cart),
                        subtotal |-> subtotal,
                        delivery_charges |-> Val(sess.delivery_charges),
                        total |-> total,
                        payment_method |-> "online_manual",
                        payment_status |-> "pending",
                        status |-> "awaiting_payment",
                        address |-> sess.address,
                        created_at |-> Some(now)]
              saved == persist_order_to_db(tbl, order)
          IN  IF saved.raised
              THEN Raised(PutSession(store, sender, kept), saved.tbl, <<bank_msg>>)
              ELSE Outcome(PutSession(store, sender, kept), saved.tbl, 200,
                           <<bank_msg>>, <<>>)

\* a lookup that unpacks the row without testing it: an unknown id raises
TrackOrderUnpacking(store, tbl, sender, text) ==
  LET order_id == Strip(text)
  IN  IF order_id \in DOMAIN tbl
      THEN Reply(store, tbl, sender, "OrderStatus",
                 [order_id |-> order_id, status |-> tbl[order_id].status,
                  payment_status |-> tbl[order_id].payment_status,
                  total |-> tbl[order_id].total,
                  created_at |-> tbl[order_id].created_at])
      ELSE Raised(store, tbl, <<>>)

\* lines 355-367
TrackOrder(store, tbl, sender, text) ==
  LET order_id == Strip(text)
  IN  IF order_id \in DOMAIN tbl
      THEN Reply(store, tbl, sender, "OrderStatus",
                 [order_id |-> order_id, status |-> tbl[order_id].status,
                  payment_status |-> tbl[order_id].payment_status,
                  total |-> tbl[order_id].total,
                  created_at |-> tbl[order_id].created_at])
      ELSE Reply(store, tbl, sender, "OrderNotFound", NoArgs)

\* --------------------------------------------------- POST /webhook/whatsapp
\* payload.get('from'), message type, body and location of the JSON payload
whatsapp_webhook(store, tbl, payload, uuid, now) ==
  LET sender == Get(payload, "from")
      message_type == IF "type" \in DOMAIN payload THEN payload.type ELSE "text"
      reads_text == message_type = "text" \/ "text" \in DOMAIN payload
      text == IF reads_text THEN Get(payload, "text") ELSE None
      is_location == ~reads_text /\ (message_type = "location" \/ "location" \in DOMAIN payload)
  IN  IF is_location /\ ~IsNone(sender)
      THEN LET s == Val(sender)
               sess == IF s \in DOMAIN store THEN store[s] ELSE EmptySession
           IN  Reply(PutSession(store, s,
                                [sess EXCEPT !.last_location = Get(payload, "location")]),
                     tbl, s, "GotLocation", NoArgs)
      ELSE IF IsNone(sender)
      THEN Outcome(store, tbl, 400, <<>>, <<>>)
      ELSE
        LET s == Val(sender)
            body == IF IsNone(text) THEN <<>> ELSE Val(text)
            r == Routing[body]
            awaiting == s \in DOMAIN store /\ store[s].awaiting_address = Some(TRUE)
        IN  IF r.order_intent THEN Reply(store, tbl, s, "Usage", NoArgs)
            ELSE IF r.menu THEN Reply(store, tbl, s, "Menu", [menu |-> DefaultMenu])
            ELSE IF r.selection THEN SelectItem(store, tbl, s, Matched[body])
            ELSE IF r.checkout THEN Checkout(store, tbl, s)
            ELSE IF r.cod THEN Cod(store, tbl, s)
            ELSE IF r.pickup THEN Pickup(store, tbl, s, uuid, now)
            ELSE IF r.address_word \/ awaiting THEN Address(store, tbl, s, text)
            ELSE IF r.online THEN Online(store, tbl, s, uuid, now)
            ELSE IF r.upload THEN Reply(store, tbl, s, "UseUpload", NoArgs)
            ELSE IF r.track THEN Reply(store, tbl, s, "AskOrderId", NoArgs)
            ELSE IF r.order_id THEN TrackOrder(store, tbl, s, body)
            ELSE Reply(store, tbl, s, "Help", NoArgs)

\* ---------------------------------------------------- POST /delivery/upload
\* data is None for a body that is empty ({} is falsy); any other body replaces
\* the zone table as it is
upload_delivery_charges(current, data) ==
  IF IsNone(data)
  THEN [delivery_charges |-> current,
        resp |-> Response("delivery_upload", 400, <<>>, <<>>)]
  ELSE [delivery_charges |-> Val(data),
        resp |-> Response("delivery_upload", 200, <<>>, <<>>)]

\* ------------------------------------------------------------------ inputs
ALICE == "923001111111"
BOB == "923002222222"
Senders == {ALICE, BOB}

LOCATION == [latitude |-> 33, longitude |-> 73]

TextMessage(sender, body) == [from |-> Some(sender), type |-> "text", text |-> Some(body)]
LocationMessage(sender) == [from |-> Some(sender), type |-> "location", location |-> Some(LOCATION)]
AnonymousMessage(body) == [type |-> "text", text |-> Some(body)]

\* bodies customers send: the checkout conversation, the keywords that need
\* a cart, and order tracking
CheckoutTexts == {T_ADD, T_CHECKOUT, T_COD, T_STREET, T_ONLINE}
CartTexts == {T_ADD, T_CHECKOUT, T_COD, T_PICKUP, T_ONLINE}
TrackTexts == {T_ADD, T_COD, T_TRACK, DEADBEEF} \cup OrderIds

\* the bodies that move a conversation from an empty cart to an order
OrderingTexts == {T_ADD, T_CHECKOUT, T_ADDRESS, T_ONLINE, T_PICKUP}

LINE == [name |-> <<"F","r","i","e","s">>, size |-> ONESIZE, price |-> 120, qty |-> 2]

\* JSON bodies posted to /order/create
CreateBodies ==
  {[customer_phone |-> ALICE, items |-> <<LINE>>, payment_method |-> "cod"],
   [customer_phone |-> BOB, items |-> <<LINE>>,
    payment_method |-> "online_manual", delivery_charges |-> 100,
    address |-> Some(T_STREET)],
   [customer_phone |-> ALICE, payment_method |-> "cod"]}

FILENAME == <<"p","a","y",".","p","n","g">>

\* request.files of /upload/screenshot
Uploads == {[file |-> FILENAME], [form |-> "no file"]}

\* JSON bodies posted to /delivery/upload: none, the default table, and a table
\* that lists Outskirts first and delivers there for free
DeliveryBodies ==
  {None, Some(DefaultDelivery),
   Some([zones |-> <<
     <<<<"O","u","t","s","k","i","r","t","s">>, 0>>,
     <<<<"C","i","t","y"," ","C","e","n","t","e","r">>, 80>>>>])}

\* ids the admin, the uploader and the gateway name
NamedIds == OrderIds \cup {DEADBEEF}

\* ------------------------------------------------------------------ actions
\* app.run(host='0.0.0.0', port=5000, debug=True) serves each request on a
\* thread of its own and nothing locks the sessions dict: the positions of an
\* add-item handler, a pickup handler and the notify_rider thread of one
\* customer whose two messages are being handled at once.  ref says where the
\* dict that the add handler got from sessions.setdefault is now: still in
\* sessions ("live") or popped from it ("orphan"); orphan is the popped dict,
\* subtotal the local of the pickup handler, line the cart line the add handler
\* made of its match, acked whether "Added to cart" was sent for it, sessions0
\* and orders0 the stores as the two messages
\* found them
Idle ==
  [add |-> "idle", pickup |-> "idle", rider |-> "idle", ref |-> "none",
   orphan |-> None, subtotal |-> None, line |-> None, acked |-> FALSE,
   uuid |-> 0,
   sessions0 |-> <<>>, orders0 |-> <<>>]

Init ==
  /\ sessions = <<>>
  /\ orders = <<>>
  /\ resp = Response("start", 0, <<>>, <<>>)
  /\ delivery_charges = DefaultDelivery
  /\ inflight = Idle

\* no cart of the store is longer than the model allows
CartsBounded(store) ==
  \A k \in DOMAIN store :
    IF IsNone(store[k].cart) THEN TRUE ELSE Len(Val(store[k].cart)) <= MaxCart

\* one request to /webhook/whatsapp
Handle(payload) ==
  \E out \in {whatsapp_webhook(sessions, orders, payload, uuid, now) :
                uuid \in Uuids, now \in Times} :
    /\ CartsBounded(out.sessions)
    /\ sessions' = out.sessions
    /\ orders' = out.orders
    /\ resp' = out.resp
    /\ UNCHANGED <<delivery_charges, inflight>>

\* messages of one customer, of a second customer, and without a sender
Whatsapp(sender, bodies) == \E t \in bodies : Handle(TextMessage(sender, t))

\* a customer who orders one item at a time
WhatsappOrdering ==
  /\ Whatsapp(ALICE, OrderingTexts)
  /\ \A k \in DOMAIN sessions' :
       IF IsNone(sessions'[k].cart) THEN TRUE ELSE Len(Val(sessions'[k].cart)) <= 1
WhatsappCheckout == Whatsapp(ALICE, CheckoutTexts)
WhatsappCart == Whatsapp(ALICE, CartTexts)
WhatsappTrack == Whatsapp(ALICE, TrackTexts)
WhatsappLocation == Handle(LocationMessage(ALICE))
WhatsappOther == Handle(LocationMessage(BOB))
WhatsappAnonymous == Handle(AnonymousMessage(T_HELLO))

\* one request to /order/create, /upload/screenshot, /order/verify,
\* /webhook/payment
Create(bodies) ==
  \E data \in bodies, uuid \in Uuids, now \in Times :
    LET out == http_create_order(orders, data, uuid, now)
    IN  /\ orders' = out.orders
        /\ resp' = out.resp
        /\ UNCHANGED <<sessions, delivery_charges, inflight>>

Upload(ids, phones, forms) ==
  \E id \in ids, phone \in phones, files \in forms, now \in Times :
    LET out == upload_screenshot(orders, id, phone, files, now)
    IN  /\ orders' = out.orders
        /\ resp' = out.resp
        /\ UNCHANGED <<sessions, delivery_charges, inflight>>

Verify(ids) ==
  \E id \in ids, verified \in BOOLEAN :
    LET out == verify_order(orders, id, verified)
    IN  /\ orders' = out.orders
        /\ resp' = out.resp
        /\ UNCHANGED <<sessions, delivery_charges, inflight>>

Gateway(ids, statuses) ==
  \E id \in ids, status \in statuses :
    LET out == payment_webhook(orders, id, status)
    IN  /\ orders' = out.orders
        /\ resp' = out.resp
        /\ UNCHANGED <<sessions, delivery_charges, inflight>>

HttpCreateOrder == Create(CreateBodies)
UploadScreenshot == Upload(NamedIds, Senders, Uploads)
VerifyOrder == Verify(NamedIds)
PaymentWebhook == Gateway(NamedIds, {"paid", "failed"})

\* the same endpoints called for an order that may exist, with a file
CreateOrder == Create({b \in CreateBodies : "items" \in DOMAIN b /\ b.payment_method = "cod"})
UploadFile == Upload(OrderIds, {ALICE}, {[file |-> FILENAME]})
AdminVerify == Verify(OrderIds)
GatewayPaid == Gateway(OrderIds, {"paid"})

UploadDelivery ==
  \E data \in DeliveryBodies :
    LET out == upload_delivery_charges(delivery_charges, data)
    IN  /\ delivery_charges' = out.delivery_charges
        /\ resp' = out.resp
        /\ UNCHANGED <<sessions, orders, inflight>>

\* match_menu_item called with a text; resp keeps the text and what it found
ResolveItem ==
  \E t \in SizedTexts \cup NoSizeTexts \cup SubstringTexts :
    /\ resp' = [op |-> "match_menu_item", code |-> 0, sent |-> <<>>,
                threads |-> <<>>, text |-> t, found |-> Matched[t]]
    /\ UNCHANGED <<sessions, orders, delivery_charges, inflight>>

\* every endpoint, with one customer on the conversation side
Next ==
  \/ WhatsappOrdering
  \/ CreateOrder
  \/ UploadFile
  \/ AdminVerify
  \/ GatewayPaid

Spec == Init /\ [][Next]_vars

\* one customer from an empty cart to an online order
NextCheckout == WhatsappCheckout \/ WhatsappAnonymous

SpecCheckout == Init /\ [][NextCheckout]_vars

\* the keywords that need a cart, with a second customer and a location
NextCart == WhatsappCart \/ WhatsappOther \/ WhatsappLocation

SpecCart == Init /\ [][NextCart]_vars

\* order tracking
NextTrack == WhatsappTrack \/ CreateOrder \/ AdminVerify

SpecTrack == Init /\ [][NextTrack]_vars

\* the Order Store called directly: create and update_payment
SampleOrders ==
  {[order_id |-> NewOrderId(uuid), customer_phone |-> phone, customer_name |-> None,
    items |-> <<LINE>>, subtotal |-> 240, delivery_charges |-> dc,
    total |-> 240 + dc, payment_method |-> method, payment_status |-> "pending",
    status |-> status, address |-> Some(T_STREET), created_at |-> Some("T1")] :
     uuid \in Uuids,
     phone \in Senders,
     dc \in {0, 100},
     method \in {"cod", "online_manual"},
     status \in {"confirmed", "awaiting_payment"}}

PaymentStatuses == {"pending", "paid", "failed"}

Screenshots == {None, Some(SavePath(NewOrderId(1), FILENAME))}

StoreCreate ==
  \E order \in SampleOrders :
    LET saved == persist_order_to_db(orders, order)
    IN  /\ orders' = saved.tbl
        /\ resp' = Response("create", IF saved.raised THEN 500 ELSE 200, <<>>, <<>>)
        /\ UNCHANGED <<sessions, delivery_charges, inflight>>

StoreUpdatePayment ==
  \E id \in NamedIds, payment_status \in PaymentStatuses,
     screenshot_path \in Screenshots, now \in Times :
    /\ orders' = update_order_payment_status(orders, id, payment_status,
                                              screenshot_path, now)
    /\ resp' = Response("update_payment", 200, <<>>, <<>>)
    /\ UNCHANGED <<sessions, delivery_charges, inflight>>

NextStore == StoreCreate \/ StoreUpdatePayment

SpecStore == Init /\ [][NextStore]_vars

\* the order endpoints alone
NextOrders ==
  \/ HttpCreateOrder
  \/ UploadScreenshot
  \/ VerifyOrder
  \/ PaymentWebhook

SpecOrders == Init /\ [][NextOrders]_vars

\* one customer giving addresses while the admin replaces the zone table
NextZones ==
  \/ /\ Whatsapp(ALICE, {T_ADD, T_ADDRESS, T_TWO_ZONES, T_NO_ZONE, T_ONLINE})
     /\ \A k \in DOMAIN sessions' :
          IF IsNone(sessions'[k].cart) THEN TRUE ELSE Len(Val(sessions'[k].cart)) <= 1
  \/ UploadDelivery

SpecZones == Init /\ [][NextZones]_vars

\* the menu: the matcher on its own, and one customer asking for the menu
\* and choosing from it
NextMenu ==
  \/ ResolveItem
  \/ Whatsapp(ALICE, {T_MENU, Upper(T_MENU), T_PIZZA, T_ADD, T_CHECKOUT, T_HELLO})

SpecMenu == Init /\ [][NextMenu]_vars

\* --------------------------------- two messages of one customer at the same time
\* the steps below are the statements of whatsapp_webhook between which another
\* request thread can run: nothing in the handler holds a lock

\* the order dict of the pickup branch (lines 284-297)
PickupOrder(sender, items, subtotal, uuid, now) ==
  [order_id |-> NewOrderId(uuid), customer_phone |-> sender,
   customer_name |-> None, items |-> items, subtotal |-> subtotal,
   delivery_charges |-> 0, total |-> subtotal, payment_method |-> "cod",
   payment_status |-> "pending", status |-> "confirmed",
   address |-> Some(PICKUP), created_at |-> Some(now)]

\* an add-item message and "pickup" of ALICE reach the server together
Arrive ==
  /\ inflight = Idle
  /\ IF ALICE \in DOMAIN sessions
     THEN IF IsNone(sessions[ALICE].cart) THEN TRUE
          ELSE Len(Val(sessions[ALICE].cart)) < MaxCart
     ELSE TRUE
  /\ \E uuid \in Uuids :
       inflight' = [Idle EXCEPT !.add = "arrived", !.pickup = "arrived",
                                !.uuid = uuid, !.sessions0 = sessions,
                                !.orders0 = orders]
  /\ UNCHANGED <<sessions, orders, resp, delivery_charges>>

\* the dict appended to the cart for the match m (line 256)
CartLine(m) ==
  [name |-> Val(m.item).name, size |-> Val(m.size), price |-> Val(m.price), qty |-> 1]

\* add handler, lines 252-255: the item is matched (T_ADD names an item of the
\* menu) and sess = sessions.setdefault(sender, {'cart': []})
AddLookup ==
  /\ inflight.add = "arrived"
  /\ sessions' = IF ALICE \in DOMAIN sessions THEN sessions
                 ELSE PutSession(sessions, ALICE, [EmptySession EXCEPT !.cart = Some(<<>>)])
  /\ inflight' = [inflight EXCEPT !.add = "holds", !.ref = "live",
                                   !.line = Some(CartLine(Matched[T_ADD]))]
  /\ UNCHANGED <<orders, resp, delivery_charges>>

\* add handler, lines 256-258: the line is appended to the cart of the dict
\* the handler holds, wherever that dict is by now, and acknowledged
AddAppend ==
  /\ inflight.add = "holds"
  /\ LET sess == IF inflight.ref = "live" THEN sessions[ALICE] ELSE Val(inflight.orphan)
     IN  IF IsNone(sess.cart)
         THEN /\ resp' = Response("whatsapp", 500, <<>>, <<>>)
              /\ inflight' = [inflight EXCEPT !.add = "done"]
              /\ UNCHANGED sessions
         ELSE
           LET line == Val(inflight.line)
               cart == Append(Val(sess.cart), line)
               added == [sess EXCEPT !.cart = Some(cart)]
           IN  /\ sessions' = IF inflight.ref = "live"
                              THEN PutSession(sessions, ALICE, added) ELSE sessions
               /\ inflight' = [inflight EXCEPT !.add = "done", !.acked = TRUE,
                                 !.orphan = IF inflight.ref = "live" THEN @ ELSE Some(added)]
               /\ resp' = Response("whatsapp", 200,
                            <<Msg(ALICE, "AddedToCart",
                                  [size |-> line.size, name |-> line.name,
                                   price |-> line.price, subtotal |-> SumLines(cart)])>>,
                            <<>>)
  /\ UNCHANGED <<orders, delivery_charges>>

\* pickup handler, lines 277-297: the session is fetched, its cart checked and
\* its subtotal read
PickupBuild ==
  /\ inflight.pickup = "arrived"
  /\ IF NoCart(sessions, ALICE)
     THEN /\ resp' = Response("whatsapp", 200,
                              <<Msg(ALICE, "CartEmptyBeforePickup", NoArgs)>>, <<>>)
          /\ inflight' = [inflight EXCEPT !.pickup = "done"]
     ELSE IF IsNone(sessions[ALICE].subtotal)
     THEN /\ resp' = Response("whatsapp", 500, <<>>, <<>>)
          /\ inflight' = [inflight EXCEPT !.pickup = "done"]
     ELSE /\ inflight' = [inflight EXCEPT !.pickup = "built",
                                          !.subtotal = sessions[ALICE].subtotal]
          /\ UNCHANGED resp
  /\ UNCHANGED <<sessions, orders, delivery_charges>>

\* pickup handler, lines 298-299: persist_order_to_db serialises the cart as it
\* is at this moment, then the customer is told
PickupStore ==
  /\ inflight.pickup = "built"
  /\ \E now \in Times :
       LET order == PickupOrder(ALICE, Val(sessions[ALICE].cart),
                                Val(inflight.subtotal), inflight.uuid, now)
           saved == persist_order_to_db(orders, order)
       IN  /\ orders' = saved.tbl
           /\ IF saved.raised
              THEN /\ resp' = Response("whatsapp", 500, <<>>, <<>>)
                   /\ inflight' = [inflight EXCEPT !.pickup = "done"]
              ELSE /\ resp' = Response("whatsapp", 200,
                                <<Msg(ALICE, "PickupConfirmed",
                                      [order_id |-> order.order_id])>>, <<>>)
                   /\ inflight' = [inflight EXCEPT !.pickup = "stored"]
  /\ UNCHANGED <<sessions, delivery_charges>>

\* pickup handler, lines 301-302: the notify_rider thread is started and
\* sessions.pop(sender, None) takes the customer's dict out of the store; a
\* handler that got the dict before still holds it
PickupFinish ==
  /\ inflight.pickup = "stored"
  /\ sessions' = PopSession(sessions, ALICE)
  /\ inflight' = [inflight EXCEPT !.pickup = "done", !.rider = "started",
                    !.orphan = SessionOf(sessions, ALICE),
                    !.ref = IF @ = "live" THEN "orphan" ELSE @]
  /\ UNCHANGED <<orders, resp, delivery_charges>>

\* the notify_rider thread (lines 514-520): order['items'] is the cart list of
\* the popped dict, read when the thread gets to run
RiderRuns ==
  /\ inflight.rider = "started"
  /\ \E now \in Times :
       resp' = Response("notify_rider", 200, <<>>,
                 <<notify_rider(PickupOrder(ALICE, Val(Val(inflight.orphan).cart),
                                            Val(inflight.subtotal), inflight.uuid, now))>>)
  /\ inflight' = [inflight EXCEPT !.rider = "done"]
  /\ UNCHANGED <<sessions, orders, delivery_charges>>

\* both handlers have returned jsonify({'status':'ok'}) (line 371) and the thread
\* has ended
BothReturn ==
  /\ inflight.add = "done"
  /\ inflight.pickup = "done"
  /\ inflight.rider # "started"
  /\ inflight' = Idle
  /\ UNCHANGED <<sessions, orders, resp, delivery_charges>>

\* ALICE fills a cart and checks out with one message at a time, then sends
\* an item and "pickup" together
NextRace ==
  \/ inflight = Idle /\ Whatsapp(ALICE, {T_ADD, T_CHECKOUT})
  \/ Arrive \/ AddLookup \/ AddAppend
  \/ PickupBuild \/ PickupStore \/ PickupFinish
  \/ RiderRuns \/ BothReturn

SpecRace == Init /\ [][NextRace]_vars


\* ------------------------------------------------------------- properties
\* C1: every persisted order has total = subtotal + delivery_charges, and no
\* request (router message, order creation, screenshot upload, payment
\* webhook, admin verification) changes the total of an order already stored
C1_TotalIsSumAndFixed ==
  [][/\ \A id \in DOMAIN orders' :
          orders'[id].total = orders'[id].subtotal + orders'[id].delivery_charges
     /\ \A id \in DOMAIN orders :
          id \in DOMAIN orders' => orders'[id].total = orders[id].total]_vars

\* an order with a delivery charge, created by the router, has been verified
C1_FeeOrderVerified ==
  /\ resp.op = "order_verify"
  /\ \E id \in DOMAIN orders :
       /\ orders[id].delivery_charges > 0
       /\ orders[id].payment_status = "paid"

\* C2: creating an order whose order_id is already stored fails and leaves
\* the table, and so the stored record, as it was; rows are keyed by their id
C2_DuplicateCreateFails ==
  /\ \A id \in DOMAIN orders : orders[id].order_id = id
  /\ \A order \in SampleOrders :
       order.order_id \in DOMAIN orders =>
         LET saved == persist_order_to_db(orders, order)
         IN  saved.raised /\ saved.tbl = orders
  /\ \A data \in {b \in CreateBodies : "items" \in DOMAIN b},
        uuid \in Uuids, now \in Times :
       NewOrderId(uuid) \in DOMAIN orders =>
         LET out == http_create_order(orders, data, uuid, now)
         IN  /\ out.resp.code = 500
             /\ out.orders = orders
             /\ out.resp.sent = <<>>

\* a second create with a stored id has been refused
C2_DuplicateRefused ==
  /\ resp.op = "create"
  /\ resp.code = 500
  /\ DOMAIN orders # {}

\* C3: update_payment on an existing order stores the payment_status passed in
\* and derives status from the arguments alone: with a screenshot reference
\* awaiting_verification for pending and confirmed otherwise, without one
\* confirmed for paid and pending otherwise
C3_StatusFromArguments ==
  \A id \in DOMAIN orders, payment_status \in PaymentStatuses,
     screenshot_path \in Screenshots, now \in Times :
    LET row == update_order_payment_status(orders, id, payment_status,
                                           screenshot_path, now)[id]
    IN  /\ row.payment_status = payment_status
        /\ row.status = IF screenshot_path # None
                        THEN IF payment_status = "pending"
                             THEN "awaiting_verification" ELSE "confirmed"
                        ELSE IF payment_status = "paid"
                             THEN "confirmed" ELSE "pending"

\* an order that had a screenshot has since been updated to failed without one
C3_FailedAfterScreenshot ==
  /\ resp.op = "update_payment"
  /\ \E id \in DOMAIN orders :
       /\ orders[id].screenshot_path # None
       /\ orders[id].payment_status = "failed"
       /\ orders[id].status = "pending"

\* C4: every persisted order has payment_status in {pending, paid, failed} and
\* status in {initiated, awaiting_payment, awaiting_verification, confirmed,
\* failed}
C4_StatusEnums ==
  \A id \in DOMAIN orders :
    /\ orders[id].payment_status \in {"pending", "paid", "failed"}
    /\ orders[id].status \in {"initiated", "awaiting_payment",
                              "awaiting_verification", "confirmed", "failed"}

\* C4 as the handlers have it: payment_status is in {pending, paid, failed} and
\* status in {initiated, awaiting_payment, awaiting_verification, confirmed,
\* pending}; an update without a screenshot writes status pending for a
\* payment that is not paid, and nothing writes status failed
C4_StatusEnumsWithPending ==
  \A id \in DOMAIN orders :
    /\ orders[id].payment_status \in {"pending", "paid", "failed"}
    /\ orders[id].status \in {"initiated", "awaiting_payment",
                              "awaiting_verification", "confirmed", "pending"}

\* the admin rejected an order: its payment failed and its status is pending
C4_RejectedOrderPending ==
  /\ resp.op = "order_verify"
  /\ \E id \in DOMAIN orders :
       /\ orders[id].payment_status = "failed"
       /\ orders[id].status = "pending"

\* C5: for a customer whose cart holds items, the messages "checkout", then
\* "123 City Center Rd", then "online" create exactly one order, with subtotal
\* the cart sum, delivery_charges the zone fee 80, total their sum and status
\* awaiting_payment
C5_CheckoutAddressOnline ==
  \A uuid \in Uuids, now \in Times :
    LET has_items == IF ALICE \in DOMAIN sessions
                     THEN Truthy(sessions[ALICE].cart) ELSE FALSE
        order_id == NewOrderId(uuid)
    IN  (has_items /\ order_id \notin DOMAIN orders) =>
          LET cart == Val(sessions[ALICE].cart)
              a == whatsapp_webhook(sessions, orders,
                                    TextMessage(ALICE, T_CHECKOUT), uuid, now)
              b == whatsapp_webhook(a.sessions, a.orders,
                                    TextMessage(ALICE, T_STREET), uuid, now)
              c == whatsapp_webhook(b.sessions, b.orders,
                                    TextMessage(ALICE, T_ONLINE), uuid, now)
          IN  /\ DOMAIN c.orders = DOMAIN orders \cup {order_id}
              /\ c.orders[order_id].subtotal = SumLines(cart)
              /\ c.orders[order_id].delivery_charges = 80
              /\ c.orders[order_id].total = SumLines(cart) + 80
              /\ c.orders[order_id].status = "awaiting_payment"

\* C6: for a customer with no session or an empty cart, each of "pickup",
\* "checkout", "cod" and "online" creates no order, sends that customer one
\* guidance reply and leaves every session as it was
C6_NoCartGuidance ==
  \A s \in Senders, t \in {T_PICKUP, T_CHECKOUT, T_COD, T_ONLINE},
     uuid \in Uuids, now \in Times :
    LET cart == IF s \notin DOMAIN sessions THEN <<>>
                ELSE IF IsNone(sessions[s].cart) THEN <<>>
                ELSE Val(sessions[s].cart)
        out == whatsapp_webhook(sessions, orders, TextMessage(s, t), uuid, now)
    IN  cart = <<>> =>
          /\ out.orders = orders
          /\ out.sessions = sessions
          /\ out.resp.code = 200
          /\ out.resp.threads = <<>>
          /\ Len(out.resp.sent) = 1
          /\ out.resp.sent[1].to = s
          /\ out.resp.sent[1].kind =
               IF t = T_PICKUP THEN "CartEmptyBeforePickup"
               ELSE IF t = T_CHECKOUT THEN "CartEmptySendItem"
               ELSE "CartEmptyBeforePayment"

\* a customer whose session holds a location and no cart was told the cart is
\* empty, while the other customer has a session too
C6_GuidanceSent ==
  /\ resp.op = "whatsapp"
  /\ resp.sent = <<Msg(ALICE, "CartEmptyBeforePickup", NoArgs)>>
  /\ DOMAIN sessions = Senders
  /\ IsNone(sessions[ALICE].cart)

\* C7: a PH- message that no rule of higher priority takes is a read-only
\* lookup: for a stored id the reply reports the order's status,
\* payment_status, total and created_at, for an unknown id it is the
\* not-found reply and nothing is raised; orders and sessions stay as they were
C7_OrderIdLookupReadOnly ==
  \A s \in Senders, id \in NamedIds, uuid \in Uuids, now \in Times :
    LET awaiting == IF s \in DOMAIN sessions
                    THEN sessions[s].awaiting_address = Some(TRUE) ELSE FALSE
        out == whatsapp_webhook(sessions, orders, TextMessage(s, id), uuid, now)
    IN  ~awaiting =>
          /\ out.orders = orders
          /\ out.sessions = sessions
          /\ out.resp.code = 200
          /\ out.resp.sent =
               IF id \in DOMAIN orders
               THEN <<Msg(s, "OrderStatus",
                          [order_id |-> id, status |-> orders[id].status,
                           payment_status |-> orders[id].payment_status,
                           total |-> orders[id].total,
                           created_at |-> orders[id].created_at])>>
               ELSE <<Msg(s, "OrderNotFound", NoArgs)>>

\* the customer looked up an order the admin had rejected
C7_RejectedOrderReported ==
  /\ resp.op = "whatsapp"
  /\ Len(resp.sent) = 1
  /\ resp.sent[1].kind = "OrderStatus"
  /\ resp.sent[1].args.payment_status = "failed"

\* C8: update_payment with an order_id that is not stored, as reached from a
\* screenshot upload or a payment webhook, fails with NotFound and no order is
\* created or modified
C8_UnknownIdNotFound ==
  \A id \in NamedIds \ DOMAIN orders :
    /\ \A phone \in Senders, now \in Times :
         LET out == upload_screenshot(orders, id, phone, [file |-> FILENAME], now)
         IN  out.resp.code = 404 /\ out.orders = orders
    /\ LET out == payment_webhook(orders, id, "paid")
       IN  out.resp.code = 404 /\ out.orders = orders

\* C9: admin verification with verified=true leaves an existing order, whatever
\* its status was, paid and confirmed and starts one rider notification built
\* from the stored items, address and total; for an unknown id it answers 404,
\* changes nothing and notifies nobody
C9_ConfirmManual ==
  \A id \in NamedIds :
    LET out == verify_order(orders, id, TRUE)
    IN  IF id \in DOMAIN orders
        THEN /\ out.resp.code = 200
             /\ DOMAIN out.orders = DOMAIN orders
             /\ \A k \in DOMAIN orders \ {id} : out.orders[k] = orders[k]
             /\ out.orders[id].payment_status = "paid"
             /\ out.orders[id].status = "confirmed"
             /\ Len(out.resp.threads) = 1
             /\ LET n == out.resp.threads[1]
                    items == JsonLoads(orders[id].items_json)
                IN  /\ n.to = RIDER_NUMBER
                    /\ n.args.order_id = id
                    /\ n.args.address = orders[id].address
                    /\ n.args.total = orders[id].total
                    /\ Len(n.args.items) = Len(items)
                    /\ \A k \in 1..Len(items) :
                         /\ n.args.items[k][3] = items[k].name
                         /\ n.args.items[k][4] = items[k].price
        ELSE /\ out.resp.code = 404
             /\ out.orders = orders
             /\ out.resp.sent = <<>>
             /\ out.resp.threads = <<>>

\* the admin confirmed an order whose screenshot had been uploaded
C9_UploadedOrderConfirmed ==
  /\ resp.op = "order_verify"
  /\ resp.code = 200
  /\ Len(resp.threads) = 1
  /\ \E id \in DOMAIN orders :
       /\ orders[id].screenshot_path # None
       /\ orders[id].payment_status = "paid"
       /\ orders[id].status = "confirmed"
       /\ resp.threads[1].args.order_id = id

\* C10: after the admin confirms an existing order its verified_at is set, also
\* when no screenshot was uploaded for it, and an upload, which is no admin
\* verification, does not set verified_at
C10_VerifiedAtStamped ==
  \A id \in DOMAIN orders :
    /\ ~IsNone(verify_order(orders, id, TRUE).orders[id].verified_at)
    /\ IsNone(orders[id].verified_at) =>
         \A phone \in Senders, now \in Times :
           IsNone(upload_screenshot(orders, id, phone, [file |-> FILENAME],
                                    now).orders[id].verified_at)

\* C11: a rejection by the admin (verified=false) of an existing order sets
\* payment_status to failed, leaves status as it was before the call, and sends
\* the customer one failure notice
C11_StatusKept ==
  \A id \in DOMAIN orders :
    LET out == verify_order(orders, id, FALSE)
    IN  /\ out.orders[id].payment_status = "failed"
        /\ out.orders[id].status = orders[id].status
        /\ out.resp.sent = <<Msg(orders[id].customer_phone,
                                 "PaymentNotVerified", [order_id |-> id])>>

\* C11 as the handler has it: the rejection sets payment_status to failed and
\* writes status pending, which is what the payment update derives for a
\* payment that is not paid; every other column and every other order is as
\* before, the customer gets one failure notice and no rider is notified
C11_FailManual ==
  \A id \in DOMAIN orders :
    LET out == verify_order(orders, id, FALSE)
    IN  /\ out.resp.code = 200
        /\ out.orders = [orders EXCEPT ![id].payment_status = "failed",
                                       ![id].status = "pending"]
        /\ out.resp.sent = <<Msg(orders[id].customer_phone,
                                 "PaymentNotVerified", [order_id |-> id])>>
        /\ out.resp.threads = <<>>

\* the admin rejected an order whose screenshot had been uploaded, and its
\* customer was told so
C11_UploadedOrderRejected ==
  /\ resp.op = "order_verify"
  /\ Len(resp.sent) = 1
  /\ resp.sent[1].kind = "PaymentNotVerified"
  /\ \E id \in DOMAIN orders :
       /\ resp.sent[1].args.order_id = id
       /\ resp.sent[1].to = orders[id].customer_phone
       /\ orders[id].screenshot_path # None
       /\ orders[id].payment_status = "failed"
       /\ orders[id].status = "pending"

\* C12: "pickup" from a customer whose cart holds items, whether or not
\* "checkout" was sent before, creates exactly one order with delivery charge
\* 0, status confirmed, payment method cod and the cart as its items, starts
\* one rider notification for it and removes the customer's session
C12_PickupCreatesOrder ==
  \A s \in Senders, uuid \in Uuids, now \in Times :
    (~NoCart(sessions, s) /\ NewOrderId(uuid) \notin DOMAIN orders) =>
      LET out == whatsapp_webhook(sessions, orders, TextMessage(s, T_PICKUP),
                                  uuid, now)
          id == NewOrderId(uuid)
      IN  /\ out.resp.code = 200
          /\ DOMAIN out.orders = DOMAIN orders \cup {id}
          /\ \A k \in DOMAIN orders : out.orders[k] = orders[k]
          /\ out.orders[id].delivery_charges = 0
          /\ out.orders[id].status = "confirmed"
          /\ out.orders[id].payment_method = "cod"
          /\ out.orders[id].items_json = JsonDumps(Val(sessions[s].cart))
          /\ Len(out.resp.threads) = 1
          /\ out.resp.threads[1].args.order_id = id
          /\ s \notin DOMAIN out.sessions

\* C13: "online" from a customer whose cart holds items creates an order with
\* status awaiting_payment, payment method online_manual and payment_status
\* pending, and caches its id as pending_order_id, exactly when an address has
\* resolved a delivery charge for the session before, whatever that charge is
\* (also 0); otherwise it creates no order and asks for the address
C13_OnlineNeedsResolvedFee ==
  \A s \in Senders, uuid \in Uuids, now \in Times :
    (/\ ~NoCart(sessions, s)
     /\ sessions[s].awaiting_address # Some(TRUE)
     /\ NewOrderId(uuid) \notin DOMAIN orders) =>
      LET out == whatsapp_webhook(sessions, orders, TextMessage(s, T_ONLINE),
                                  uuid, now)
          id == NewOrderId(uuid)
      IN  IF ~IsNone(sessions[s].delivery_charges)
          THEN /\ DOMAIN out.orders = DOMAIN orders \cup {id}
               /\ out.orders[id].status = "awaiting_payment"
               /\ out.orders[id].payment_method = "online_manual"
               /\ out.orders[id].payment_status = "pending"
               /\ out.orders[id].delivery_charges = Val(sessions[s].delivery_charges)
               /\ out.sessions[s].pending_order_id = Some(id)
          ELSE /\ out.orders = orders
               /\ out.resp.sent = <<Msg(s, "AddressFirst", NoArgs)>>

\* C14: a message whose text is exactly "menu", in any letter case, is answered
\* with the catalog as text, whatever session its sender has
C14_MenuShowsCatalog ==
  \A s \in Senders, t \in {T_MENU, Upper(T_MENU)}, uuid \in Uuids, now \in Times :
    LET out == whatsapp_webhook(sessions, orders, TextMessage(s, t), uuid, now)
    IN  /\ out.resp.code = 200
        /\ out.resp.sent = <<Msg(s, "Menu", [menu |-> DefaultMenu])>>

\* C15: for every item of the menu and every size in its price table, the text
\* "<size> <exact item name>" resolves to that item, that size and the price
\* the table gives for it (a Small request gets the Small price)
C15_SizedTextExactPrice ==
  \A n \in 1..Len(DefaultMenu.items) :
    LET it == DefaultMenu.items[n]
    IN  \A k \in 1..Len(it.prices) :
          (/\ resp.op = "match_menu_item"
           /\ resp.text = it.prices[k][1] \o <<" ">> \o it.name) =>
            resp.found = Match(it, it.prices[k][2], it.prices[k][1])

\* C16: a text without any of the size words small, medium and large that
\* resolves to an item gets the item's Medium price when it has one and its
\* OneSize price when that is all it has, whether the name was found by the
\* close match or by the substring search
C16_NoSizeDefaults ==
  (/\ resp.op = "match_menu_item"
   /\ \A w \in {<<"s","m","a","l","l">>, <<"m","e","d","i","u","m">>,
               <<"l","a","r","g","e">>} : ~Contains(w, Lower(resp.text))
   /\ ~IsNone(resp.found.item)) =>
    LET prices == Val(resp.found.item).prices
    IN  /\ HasSize(prices, MEDIUM) =>
             /\ resp.found.size = Some(MEDIUM)
             /\ resp.found.price = Some(PriceOf(prices, MEDIUM))
        /\ (\A k \in 1..Len(prices) : prices[k][1] = ONESIZE) =>
             /\ resp.found.size = Some(ONESIZE)
             /\ resp.found.price = Some(PriceOf(prices, ONESIZE))

\* an item name written in capitals, which only the substring search finds,
\* was resolved to a pizza at its Medium price
C16_CapitalsResolved ==
  /\ resp.op = "match_menu_item"
  /\ resp.text = Upper(DefaultMenu.items[2].name)
  /\ resp.found = Match(DefaultMenu.items[2], 700, MEDIUM)

\* C17: zone resolution returns the charge and the name of the first zone, in
\* the order of the zone table, whose name occurs in the address without
\* regard to letter case, wherever in the address the names stand, and the
\* first zone of the table when no name occurs
C17_FirstZoneInTableOrder ==
  \A t \in {T_ADDRESS, T_STREET, T_TWO_ZONES, T_NO_ZONE} :
    \A a \in {t, Lower(t), Upper(t)} :
      LET zones == delivery_charges.zones
          named == {n \in 1..Len(zones) : Contains(Lower(zones[n][1]), Lower(a))}
          found == calculate_delivery_charge(a)
      IN  IF named = {}
          THEN found = <<zones[1][2], zones[1][1]>>
          ELSE \E n \in named :
                 /\ \A j \in named : n <= j
                 /\ found = <<zones[n][2], zones[n][1]>>

\* the customer named Outskirts before City Center in the address, and the
\* preview charges City Center, which the table lists first
C17_LaterNamedZoneCharged ==
  /\ resp.op = "whatsapp"
  /\ Len(resp.sent) = 1
  /\ resp.sent[1].kind = "OrderPreview"
  /\ resp.sent[1].args.dc = 80
  /\ sessions[ALICE].address = Some(T_TWO_ZONES)
  /\ delivery_charges = DefaultDelivery

\* C18: every order the conversation router stored has as subtotal the sum of
\* price times quantity over its own items, and its total is that sum plus its
\* delivery charge, also when items were added after "checkout"
C18_SubtotalIsItemSum ==
  \A id \in DOMAIN orders :
    LET items == JsonLoads(orders[id].items_json)
    IN  /\ orders[id].subtotal = SumLines(items)
        /\ orders[id].total = SumLines(items) + orders[id].delivery_charges

\* C19: in every reachable state, the next text message of any customer is
\* handled to the end, without an exception escaping, and answered with at
\* least one reply; an item message adds exactly one item of quantity 1 to the
\* sender's cart, also when the session was opened by a location or an address
\* message, and "pickup" with items in the cart completes without a "checkout"
C19_EveryMessageAnswered ==
  \A s \in Senders, t \in CartTexts, uuid \in Uuids, now \in Times :
    NewOrderId(uuid) \notin DOMAIN orders =>
      LET out == whatsapp_webhook(sessions, orders, TextMessage(s, t), uuid, now)
          cart == IF s \notin DOMAIN sessions THEN <<>>
                  ELSE IF IsNone(sessions[s].cart) THEN <<>>
                  ELSE Val(sessions[s].cart)
      IN  /\ out.resp.code = 200
          /\ Len(out.resp.sent) >= 1
          /\ t = T_ADD =>
               /\ s \in DOMAIN out.sessions
               /\ out.sessions[s].cart =
                    Some(Append(cart, [name |-> DefaultMenu.items[3].name,
                                       size |-> <<"L","a","r","g","e">>,
                                       price |-> 800, qty |-> 1]))

\* C20: when the router has just created an online-payment order, the
\* customer's session is still there, its pending_order_id is the id of the
\* new order, and its cart is empty
C20_OnlineOrderEmptiesCart ==
  (/\ resp.op = "whatsapp"
   /\ resp.code = 200
   /\ Len(resp.sent) = 1
   /\ resp.sent[1].kind = "BankDetails") =>
    LET s == resp.sent[1].to
        id == resp.sent[1].args.order_id
    IN  /\ id \in DOMAIN orders
        /\ orders[id].payment_method = "online_manual"
        /\ s \in DOMAIN sessions
        /\ sessions[s].pending_order_id = Some(id)
        /\ ~Truthy(sessions[s].cart)

\* C22: whenever a handler has started a rider notification, the order the
\* notification describes is stored with status confirmed or payment_status
\* paid: no rider is notified for an order that still awaits payment or
\* verification
C22_RiderOnlyForConfirmedOrPaid ==
  \A k \in 1..Len(resp.threads) :
    LET id == resp.threads[k].args.order_id
    IN  /\ id \in DOMAIN orders
        /\ \/ orders[id].status = "confirmed"
           \/ orders[id].payment_status = "paid"

\* C23: no request removes an order from the table, and an order once stored
\* keeps its order_id, customer_phone, items, subtotal, delivery charge, total,
\* payment method, address and created_at through every screenshot upload,
\* gateway webhook, admin confirmation and admin rejection: those change
\* payment_status, status, screenshot_path and verified_at only
C23_OrdersKeptAsCreated ==
  [][\A id \in DOMAIN orders :
       /\ id \in DOMAIN orders'
       /\ \A f \in {"order_id", "customer_phone", "items_json", "subtotal",
                    "delivery_charges", "total", "payment_method", "address",
                    "created_at"} :
            orders'[id][f] = orders[id][f]]_vars

\* the gateway reported a payment for an order whose screenshot had been
\* uploaded before: all four lifecycle columns of the order have been written
C23_UploadedOrderPaidByGateway ==
  /\ resp.op = "payment_webhook"
  /\ Len(resp.threads) = 1
  /\ \E id \in DOMAIN orders :
       /\ orders[id].screenshot_path # None
       /\ orders[id].verified_at # None
       /\ orders[id].payment_status = "paid"
       /\ orders[id].status = "confirmed"

\* C24: when no name of the menu is close enough to the text and the substring
\* search finds the item, the size is resolved as in the close-match pass: the
\* size detected in the text with its price when the item is sold in it, else
\* OneSize, else Medium, else the first entry of the price table
C24_SubstringPassResolvesSize ==
  (/\ resp.op = "match_menu_item"
   /\ resp.text \in SubstringTexts
   /\ get_close_matches(Strip(resp.text),
                        [n \in 1..Len(DefaultMenu.items) |->
                           DefaultMenu.items[n].name]) = 0) =>
    /\ ~IsNone(resp.found.item)
    /\ LET it == Val(resp.found.item)
           prices == it.prices
           size == DetectSize(Strip(resp.text))
       IN  /\ Contains(Lower(it.name), Lower(resp.text))
           /\ resp.found =
                IF ~IsNone(size) /\ HasSize(prices, Val(size))
                THEN Match(it, PriceOf(prices, Val(size)), Val(size))
                ELSE IF HasSize(prices, ONESIZE)
                THEN Match(it, PriceOf(prices, ONESIZE), ONESIZE)
                ELSE IF HasSize(prices, MEDIUM)
                THEN Match(it, PriceOf(prices, MEDIUM), MEDIUM)
                ELSE Match(it, prices[1][2], prices[1][1])

\* C21: an add-item message and "pickup" of one customer handled at the same
\* time are serialized: once both handlers have returned, the session store and
\* the order store are what handling the two messages one after the other, in
\* one of the two orders, leaves from the stores they found; and the cart line
\* acknowledged with "Added to cart" is still in the customer's cart or in the
\* items of the order stored meanwhile
C21_RacingMessagesSerialized ==
  (inflight.add = "done" /\ inflight.pickup = "done") =>
    /\ \E now \in Times : \E first \in {T_ADD, T_PICKUP} :
         LET second == IF first = T_ADD THEN T_PICKUP ELSE T_ADD
             one == whatsapp_webhook(inflight.sessions0, inflight.orders0,
                                     TextMessage(ALICE, first), inflight.uuid, now)
             both == whatsapp_webhook(one.sessions, one.orders,
                                      TextMessage(ALICE, second), inflight.uuid, now)
         IN  sessions = both.sessions /\ orders = both.orders
    /\ inflight.acked =>
         LET line == Val(inflight.line)
             Count(items) == Cardinality({n \in 1..Len(items) : items[n] = line})
             CartOf(store) == IF ALICE \in DOMAIN store
                              THEN IF IsNone(store[ALICE].cart) THEN <<>>
                                   ELSE Val(store[ALICE].cart)
                              ELSE <<>>
             stored == DOMAIN orders \ DOMAIN inflight.orders0
             Ordered(id) == Count(JsonLoads(orders[id].items_json))
             InOrders == IF stored = {} THEN 0
                         ELSE Ordered(CHOOSE id \in stored : TRUE)
         IN  Count(CartOf(sessions)) + InOrders > Count(CartOf(inflight.sessions0))

====
